---- MODULE Spec2Model ----
(***************************************************************************)
(* Diamond price prediction service: the serving process of                *)
(* backend/app.py (load_model, /predict, /health) and the registry it      *)
(* reads, which backend/train.py fills.                                    *)
(***************************************************************************)
EXTENDS Integers, Sequences, FiniteSets, TLC

(***************************************************************************)
(* Bounds of the model.                                                    *)
(***************************************************************************)
\* Largest number of records in one request body.
MaxBatch == 2

(***************************************************************************)
(* Python values.                                                          *)
(***************************************************************************)
\* Python's None, for the two globals and the locals of load_model: an
\* optional value is the empty set or a singleton.
None == {}

Some(v) == {v}

Get(o) == CHOOSE v \in o : TRUE

\* A cell of a data frame: a number, a string, or NaN (a missing value).
NumV(n) == [k |-> "num", n |-> n, s |-> ""]

StrV(s) == [k |-> "str", n |-> 0, s |-> s]

NaN == [k |-> "nan", n |-> 0, s |-> ""]

\* The strings that appear as values in the model, in Python's string order
\* (upper case before lower case), which is the order get_dummies sorts the
\* categories of a column in.
StringOrder == <<"Fair", "Good", "Ideal", "Rare", "abc", "invalid_value">>

StrRank(s) == CHOOSE i \in 1..Len(StringOrder) : StringOrder[i] = s

\* str() of a small integer, as used in an indicator column's name.
Digits == <<"0", "1", "2", "3", "4", "5", "6", "7", "8", "9">>

PyStr(c) == IF c.k = "str" THEN c.s ELSE IF c.k = "num" THEN Digits[c.n + 1] ELSE "nan"

\* The order pandas sorts the categories of an object column in: numbers
\* first, by value, then strings.
CellLess(a, b) ==
    IF a.k = "num" /\ b.k = "num" THEN a.n < b.n
    ELSE IF a.k = "num" THEN b.k = "str"
    ELSE IF b.k = "num" THEN FALSE
    ELSE StrRank(a.s) < StrRank(b.s)

RECURSIVE SortCells(_)
SortCells(S) ==
    IF S = {} THEN <<>>
    ELSE LET m == CHOOSE a \in S : \A b \in S \ {a} : CellLess(a, b)
         IN  <<m>> \o SortCells(S \ {m})

(***************************************************************************)
(* Sequences.                                                              *)
(***************************************************************************)
Range(s) == {s[i] : i \in 1..Len(s)}

HasDuplicates(s) == \E i, j \in 1..Len(s) : i # j /\ s[i] = s[j]

\* list.index: the first position of x in s.
IndexOf(s, x) == CHOOSE i \in 1..Len(s) : s[i] = x /\ \A j \in 1..(i - 1) : s[j] # x

RECURSIVE Flatten(_)
Flatten(ss) == IF ss = <<>> THEN <<>> ELSE Head(ss) \o Flatten(Tail(ss))

SelectIdx(s, keep) ==
    LET RECURSIVE go(_)
        go(i) == IF i > Len(s) THEN <<>>
                 ELSE (IF keep[i] THEN <<s[i]>> ELSE <<>>) \o go(i + 1)
    IN  go(1)

(***************************************************************************)
(* Data frames (pandas): labelled columns, rows of cells.                  *)
(***************************************************************************)
Frame(cols, rows) == [cols |-> cols, rows |-> rows]

EmptyFrame == Frame(<<>>, <<>>)

\* The result of a call that may raise: the value, or the exception's text.
Ok(v) == [ok |-> TRUE, val |-> v, err |-> ""]

Raise(text) == [ok |-> FALSE, val |-> EmptyFrame, err |-> text]

\* A JSON object is a sequence of key/value members, in document order.
Member(key, val) == [key |-> key, val |-> val]

Keys(rec) == [i \in 1..Len(rec) |-> rec[i].key]

Lookup(rec, key) ==
    IF key \in Range(Keys(rec)) THEN rec[IndexOf(Keys(rec), key)].val ELSE NaN

RECURSIVE Dedup(_)
Dedup(s) ==
    IF s = <<>> THEN <<>>
    ELSE LET front == Dedup(SubSeq(s, 1, Len(s) - 1))
         IN  IF s[Len(s)] \in Range(front) THEN front ELSE Append(front, s[Len(s)])

\* request.get_json(): the decoded body, or the BadRequest it raises.
ErrBadJson == "400 Bad Request: Failed to decode JSON object"

get_json(body) == IF body.kind = "malformed" THEN Raise(ErrBadJson) ELSE Ok(EmptyFrame)

\* pd.DataFrame(data). A list of dicts gives one row per dict, the columns
\* being the keys in order of first appearance and a missing key NaN; a dict
\* of scalars (a bare JSON object) raises.
ErrScalars == "If using all scalar values, you must pass an index"

DataFrame(body) ==
    IF body.kind = "object" THEN Raise(ErrScalars)
    ELSE LET recs == body.records
             cols == Dedup(Flatten([i \in 1..Len(recs) |-> Keys(recs[i])]))
         IN  Ok(Frame(cols,
                      [i \in 1..Len(recs) |->
                          [j \in 1..Len(cols) |-> Lookup(recs[i], cols[j])]]))

Column(F, j) == [i \in 1..Len(F.rows) |-> F.rows[i][j]]

\* dtype object: the column holds a string.
IsObject(F, j) == \E i \in 1..Len(F.rows) : F.rows[i][j].k = "str"

\* _get_dummies_1d: the categories of column j, sorted, NaN left out, the
\* first one dropped under drop_first.
Levels(F, j, drop_first) ==
    LET all == SortCells({c \in Range(Column(F, j)) : c.k # "nan"})
    IN  IF drop_first /\ all # <<>> THEN Tail(all) ELSE all

DummyName(prefix, level) == prefix \o "_" \o PyStr(level)

\* Variant of the indicator: 1 in every row.
IndicatorAlwaysOne(c, level) == NumV(1)

Indicator(c, level) == IF c = level THEN NumV(1) ELSE NumV(0)

\* Variant of get_dummies: with columns None every column is encoded,
\* whatever its dtype.
get_dummies_every_column(F, columns, drop_first) ==
    LET n      == Len(F.cols)
        enc    == [j \in 1..n |-> IF columns = None THEN TRUE
                                   ELSE F.cols[j] \in Range(Get(columns))]
        kept   == SelectIdx([j \in 1..n |-> j], [j \in 1..n |-> ~enc[j]])
        encd   == SelectIdx([j \in 1..n |-> j], enc)
        lv(j)  == Levels(F, j, drop_first)
        dcols  == Flatten([e \in 1..Len(encd) |->
                      [l \in 1..Len(lv(encd[e])) |->
                          DummyName(F.cols[encd[e]], lv(encd[e])[l])]])
        drow(i) == Flatten([e \in 1..Len(encd) |->
                      [l \in 1..Len(lv(encd[e])) |->
                          Indicator(F.rows[i][encd[e]], lv(encd[e])[l])]])
    IN  IF n = 0 THEN Raise("No objects to concatenate")
        ELSE Ok(Frame([k \in 1..Len(kept) |-> F.cols[kept[k]]] \o dcols,
                      [i \in 1..Len(F.rows) |->
                          [k \in 1..Len(kept) |-> F.rows[i][kept[k]]] \o drow(i)]))

\* pd.get_dummies(data, columns=columns, drop_first=drop_first). The columns
\* encoded are those named, or with columns None those of dtype object; the
\* result is the other columns in order, then for each encoded column in
\* order one indicator column per category.
ErrNoObjects == "No objects to concatenate"

get_dummies(F, columns, drop_first) ==
    LET n      == Len(F.cols)
        enc    == [j \in 1..n |-> IF columns = None THEN IsObject(F, j)
                                   ELSE F.cols[j] \in Range(Get(columns))]
        kept   == SelectIdx([j \in 1..n |-> j], [j \in 1..n |-> ~enc[j]])
        encd   == SelectIdx([j \in 1..n |-> j], enc)
        lv(j)  == Levels(F, j, drop_first)
        dcols  == Flatten([e \in 1..Len(encd) |->
                      [l \in 1..Len(lv(encd[e])) |->
                          DummyName(F.cols[encd[e]], lv(encd[e])[l])]])
        drow(i) == Flatten([e \in 1..Len(encd) |->
                      [l \in 1..Len(lv(encd[e])) |->
                          Indicator(F.rows[i][encd[e]], lv(encd[e])[l])]])
    IN  IF n = 0 THEN Raise(ErrNoObjects)
        ELSE Ok(Frame([k \in 1..Len(kept) |-> F.cols[kept[k]]] \o dcols,
                      [i \in 1..Len(F.rows) |->
                          [k \in 1..Len(kept) |-> F.rows[i][kept[k]]] \o drow(i)]))

\* Variant of reindex: the missing columns are added and the columns the
\* list does not name are kept, after those of the list.
reindex_keeping_extras(F, columns, fill_value) ==
    IF columns = None THEN Ok(F)
    ELSE LET L      == Get(columns)
             extras == SelectIdx(F.cols, [j \in 1..Len(F.cols) |-> F.cols[j] \notin Range(L)])
             all    == L \o extras
         IN  IF F.cols = L THEN Ok(F)
             ELSE IF HasDuplicates(F.cols) THEN Raise("cannot reindex on an axis with duplicate labels")
             ELSE Ok(Frame(all,
                       [i \in 1..Len(F.rows) |->
                           [j \in 1..Len(all) |->
                               IF all[j] \in Range(F.cols)
                               THEN F.rows[i][IndexOf(F.cols, all[j])]
                               ELSE fill_value]]))

\* Variant of reindex: the call without fill_value=0, which leaves NaN in the
\* columns it adds.
reindex_without_fill(F, columns, fill_value) ==
    IF columns = None THEN Ok(F)
    ELSE LET L == Get(columns)
         IN  IF F.cols = L THEN Ok(F)
             ELSE IF HasDuplicates(F.cols) THEN Raise("cannot reindex on an axis with duplicate labels")
             ELSE Ok(Frame(L,
                       [i \in 1..Len(F.rows) |->
                           [j \in 1..Len(L) |->
                               IF L[j] \in Range(F.cols)
                               THEN F.rows[i][IndexOf(F.cols, L[j])]
                               ELSE NaN]]))

\* df.reindex(columns=columns, fill_value=fill_value): with columns None the
\* frame is returned as it is; with the labels already equal to columns too;
\* a frame with a duplicated label cannot be reindexed; otherwise the result
\* has the labels of columns, a label the frame has taking the frame's
\* values and any other label fill_value in every row.
ErrDuplicate == "cannot reindex on an axis with duplicate labels"

reindex(F, columns, fill_value) ==
    IF columns = None THEN Ok(F)
    ELSE LET L == Get(columns)
         IN  IF F.cols = L THEN Ok(F)
             ELSE IF HasDuplicates(F.cols) THEN Raise(ErrDuplicate)
             ELSE Ok(Frame(L,
                       [i \in 1..Len(F.rows) |->
                           [j \in 1..Len(L) |->
                               IF L[j] \in Range(F.cols)
                               THEN F.rows[i][IndexOf(F.cols, L[j])]
                               ELSE fill_value]]))

(***************************************************************************)
(* The fitted model: an opaque function from a row to a price, a different *)
(* one for each training run.                                              *)
(***************************************************************************)
RECURSIVE RowCode(_)
RowCode(row) == IF row = <<>> THEN 0 ELSE Head(row).n + 4 * RowCode(Tail(row))

PredictRow(m, row) == 1000 * m + RowCode(row) + 1

ErrNoSamples == "Found array with 0 sample(s) while a minimum of 1 is required"

ErrFeatureNames == "The feature names should match those that were passed during fit"

ErrNaN == "Input X contains NaN"

\* model.predict(X) of the model of run m, fit on the columns fitted:
\* one price per row, in row order. allow_nan is whether the installed
\* scikit-learn lets a forest predict on missing values.
ModelPredict(m, fitted, allow_nan, X) ==
    IF X.cols # fitted THEN Raise(ErrFeatureNames)
    ELSE IF Len(X.rows) = 0 THEN Raise(ErrNoSamples)
    ELSE IF ~allow_nan /\ \E i \in 1..Len(X.rows) : NaN \in Range(X.rows[i])
         THEN Raise(ErrNaN)
    ELSE Ok([i \in 1..Len(X.rows) |-> PredictRow(m, X.rows[i])])

(***************************************************************************)
(* Training data and the column list a training run persists (train.py).   *)
(***************************************************************************)
\* data/diamonds.csv, cut down to one numeric feature, one categorical
\* feature and the target, in two revisions with different categories.
Dataset(rev) ==
    IF rev = 1
    THEN Frame(<<"carat", "cut", "price">>,
               << <<NumV(1), StrV("Fair"), NumV(3)>>,
                  <<NumV(2), StrV("Good"), NumV(5)>>,
                  <<NumV(1), StrV("Ideal"), NumV(4)>>,
                  <<NumV(2), StrV("Fair"), NumV(6)>> >>)
    ELSE Frame(<<"carat", "cut", "price">>,
               << <<NumV(2), StrV("Rare"), NumV(9)>>,
                  <<NumV(1), StrV("Good"), NumV(3)>>,
                  <<NumV(2), StrV("Ideal"), NumV(7)>> >>)

\* The categorical columns train.py encodes.
CategoricalColumns == <<"cut">>

\* df.drop(label, axis=1).
drop(F, label) ==
    LET keep == [j \in 1..Len(F.cols) |-> F.cols[j] # label]
    IN  Frame(SelectIdx(F.cols, keep),
              [i \in 1..Len(F.rows) |-> SelectIdx(F.rows[i], keep)])

\* X of train.py: the encoded data set without the target column.
TrainX(df) == drop(get_dummies(df, Some(CategoricalColumns), TRUE).val, "price")

\* Variant of the column list: the columns of the encoded data set, the
\* target among them.
TrainingColumnsWithTarget(df) == get_dummies(df, Some(CategoricalColumns), TRUE).val.cols

\* training_columns.json as train.py writes it: X.columns.tolist().
TrainingColumnsJson(df) == TrainX(df).cols

(***************************************************************************)
(* The model registry (MLflow on DagsHub).                                 *)
(***************************************************************************)
\* A registered model version: the run that logged it and its stage.
Version(run_id, stage) == [run_id |-> run_id, current_stage |-> stage]

\* A run of the tracking server: the revision of the data set it trained on,
\* the column list it wrote to training_columns.json, its status, and what it
\* has logged so far: the parameters, the metric, the artifact under
\* model_meta.
RunRecord(rev, status, params, metrics, artifact) ==
    [dataset |-> rev, columns |-> TrainingColumnsJson(Dataset(rev)),
     status |-> status, params |-> params, metrics |-> metrics,
     artifact |-> artifact]

\* The parameters and the metric train.py logs.
LoggedParams == {"n_estimators", "random_state"}

LoggedMetrics == {"rmse"}

\* A run that logged everything and ended.
Run(rev) == RunRecord(rev, "FINISHED", LoggedParams, LoggedMetrics, TRUE)

Registry(versions, runs) == [versions |-> versions, runs |-> runs]

\* client.get_latest_versions(name, stages=[stage]): the version with the
\* highest number in that stage, if there is one.
get_latest_versions(reg, stage) ==
    LET held == {v \in 1..Len(reg.versions) : reg.versions[v].current_stage = stage}
    IN  IF held = {} THEN None
        ELSE Some(CHOOSE v \in held : \A w \in held : w <= v)

\* client.get_latest_versions(name): the latest version of every stage that
\* has one; load_model takes the first of the list.
get_latest_versions_any(reg) ==
    IF Len(reg.versions) = 0 THEN None ELSE Some(Len(reg.versions))

\* The registries that runs of train.py leave behind: none yet, one run, two
\* runs, and a run that stopped between log_model and the stage transition.
Registries ==
    { Registry(<<>>, <<>>),
      Registry(<<Version(1, "Production")>>, <<Run(1)>>),
      Registry(<<Version(1, "Archived"), Version(2, "Production")>>,
               <<Run(1), Run(2)>>),
      Registry(<<Version(1, "None")>>,
               <<RunRecord(1, "FAILED", LoggedParams, LoggedMetrics, TRUE)>>) }

(***************************************************************************)
(* Runs of train.py.                                                       *)
(***************************************************************************)
\* How many times train.py is run.
MaxRuns == 2

Jobs == 1..MaxRuns

\* The revision of data/diamonds.csv the j-th run of train.py reads.
TrainRev(j) == ((j - 1) % 2) + 1

\* A run of train.py: where it is, the tracking run it started, its local
\* new_version, the step that raised, and the registry as it was when the
\* script started.
Job(at, run, version, failed_at, before) ==
    [pc |-> at, run |-> run, new_version |-> version, failed_at |-> failed_at,
     before |-> before]

NotStarted == Job("not_started", 0, 0, "none", Registry(<<>>, <<>>))

\* mlflow.start_run(): a new run, RUNNING, with nothing logged.
create_run(reg, rev) ==
    [reg EXCEPT !.runs = Append(@, RunRecord(rev, "RUNNING", {}, {}, FALSE))]

\* Variant of the end of a run: a failed run is rolled back, what it logged
\* is deleted.
end_run_rolling_back(reg, r, status) ==
    IF status = "FAILED"
    THEN [reg EXCEPT !.runs[r].status = status,
                     !.runs[r].params = {},
                     !.runs[r].metrics = {},
                     !.runs[r].artifact = FALSE]
    ELSE [reg EXCEPT !.runs[r].status = status]

\* The exit of the with block: the run ends FINISHED, or FAILED when an
\* exception leaves the block; nothing the run logged is removed.
end_run(reg, r, status) == [reg EXCEPT !.runs[r].status = status]

\* Variant of the registration: the new version is created in Production.
create_model_version_in_production(reg, r) ==
    [reg EXCEPT !.versions = Append(@, Version(r, "Production"))]

\* mlflow.sklearn.log_model(..., registered_model_name=MODEL_NAME): the next
\* version of the registered model, of this run, in stage "None".
create_model_version(reg, r) ==
    [reg EXCEPT !.versions = Append(@, Version(r, "None"))]

\* Variant of the transition: the versions already in the stage keep it.
transition_without_archiving(reg, v, stage, archive_existing_versions) ==
    [reg EXCEPT !.versions[v].current_stage = stage]

\* client.transition_model_version_stage(name, version, stage,
\* archive_existing_versions).
transition_model_version_stage(reg, v, stage, archive_existing_versions) ==
    [reg EXCEPT !.versions =
        [w \in 1..Len(reg.versions) |->
            IF w = v THEN [reg.versions[w] EXCEPT !.current_stage = stage]
            ELSE IF archive_existing_versions /\ reg.versions[w].current_stage = stage
                 THEN [reg.versions[w] EXCEPT !.current_stage = "Archived"]
            ELSE reg.versions[w]]]

(***************************************************************************)
(* Request bodies.                                                         *)
(***************************************************************************)
\* Records that name the feature fields: two complete ones (the second with
\* its keys in the other order) and one without the numeric field.
CoreRecords ==
    { <<Member("carat", NumV(1)), Member("cut", StrV("Good"))>>,
      <<Member("cut", StrV("Ideal")), Member("carat", NumV(2))>>,
      <<Member("cut", StrV("Good"))>> }

\* The first category of the training data, a category the training data
\* does not have, no feature field at all, a string where a number belongs,
\* and a field named like an indicator column.
EdgeRecords ==
    { <<Member("carat", NumV(1)), Member("cut", StrV("Fair"))>>,
      <<Member("carat", NumV(1)), Member("cut", StrV("Rare"))>>,
      <<Member("invalid_field", StrV("invalid_value"))>>,
      <<Member("carat", StrV("abc")), Member("cut", StrV("Good"))>>,
      <<Member("cut", StrV("Ideal")), Member("cut_Ideal", NumV(1))>> }

Records == CoreRecords \cup EdgeRecords

PairRecord == <<Member("carat", NumV(1)), Member("cut", StrV("Good"))>>

\* Every batch of up to MaxBatch core records, and each edge record alone,
\* before and after a complete record.
Batches ==
    UNION {[1..n -> CoreRecords] : n \in 0..MaxBatch}
        \cup {<<e>> : e \in EdgeRecords}
        \cup {<<PairRecord, e>> : e \in EdgeRecords}
        \cup {<<e, PairRecord>> : e \in EdgeRecords}

Body(kind, records) == [kind |-> kind, records |-> records]

\* A body that is no JSON, a JSON array of records, a bare JSON object.
Bodies ==
    {Body("malformed", <<>>)}
        \cup {Body("array", b) : b \in Batches}
        \cup {Body("object", <<r>>) : r \in CoreRecords}

NoBody == Body("none", <<>>)

(***************************************************************************)
(* Responses.                                                              *)
(***************************************************************************)
\* Variant of the response: the status field of /health reads "healthy".
ResponseHealthy(status, keys, price, error, model_status) ==
    [status |-> status, keys |-> keys, predicted_price |-> price,
     error |-> error, status_field |-> IF "status" \in keys THEN "healthy" ELSE "",
     model_status |-> model_status]

Response(status, keys, price, error, model_status) ==
    [status |-> status, keys |-> keys, predicted_price |-> price,
     error |-> error, status_field |-> IF "status" \in keys THEN "running" ELSE "",
     model_status |-> model_status]

NoResponse == Response(0, {}, <<>>, "", "")

ErrNotLoaded ==
    "Model not loaded. Please ensure the model is registered in MLflow and promoted to Production stage in DagsHub."

(***************************************************************************)
(* State of one serving process and of the registry it reads.              *)
(***************************************************************************)
VARIABLES
    pc,                \* where the process is: before start, in load_model, serving
    start_mode,        \* "script" (python app.py) or "imported" (WSGI, test client)
    model,             \* the global model: None or the run whose model is loaded
    training_columns,  \* the global training_columns: None or the column list
    model_uri,         \* local of load_model
    run_id,            \* local of load_model
    registry,          \* the model registry
    allow_nan,         \* whether the installed scikit-learn predicts on NaN
    load_calls,        \* how many times load_model was called
    load_error,        \* the step of load_model that raised, or "none"
    last_op,           \* the operation that ran last
    request,           \* the body of the last request
    response,          \* the response to the last request
    df_processed,      \* df_processed of the last /predict, None if not reached
    df_aligned,        \* df_aligned of the last /predict, None if not reached
    train              \* the runs of train.py

vars ==
    <<pc, start_mode, model, training_columns, model_uri, run_id, registry,
      allow_nan, load_calls, load_error, last_op, request, response,
      df_processed, df_aligned, train>>

globals == <<model, training_columns>>

locals == <<model_uri, run_id>>

trace == <<request, response, df_processed, df_aligned>>

environment == <<registry, allow_nan, train>>

\* The state of the serving process.
serving == <<pc, start_mode, globals, locals, load_calls, load_error, last_op, trace>>

\* f"models:/{MODEL_NAME}/{stage or version}".
ModelUri(stage, version) == [stage |-> stage, version |-> version]

ProductionUri == ModelUri("Production", 0)

\* The version a model URI names in a registry, if there is one.
Resolve(reg, uri) ==
    IF uri.stage # "" THEN get_latest_versions(reg, uri.stage)
    ELSE IF uri.version \in 1..Len(reg.versions) THEN Some(uri.version)
    ELSE None

Init ==
    /\ pc = "uninitialized"
    /\ start_mode = "none"
    /\ model = None
    /\ training_columns = None
    /\ model_uri = None
    /\ run_id = None
    /\ registry \in Registries
    /\ allow_nan \in BOOLEAN
    /\ load_calls = 0
    /\ load_error = "none"
    /\ last_op = "none"
    /\ request = NoBody
    /\ response = NoResponse
    /\ df_processed = None
    /\ df_aligned = None
    /\ train = [j \in Jobs |-> NotStarted]

(***************************************************************************)
(* Start of the process.                                                   *)
(***************************************************************************)
\* python app.py: the module body runs as __main__ and calls load_model().
RunAsScript ==
    /\ pc = "uninitialized"
    /\ pc' = "load_init"
    /\ start_mode' = "script"
    /\ load_calls' = load_calls + 1
    /\ last_op' = "RunAsScript"
    /\ UNCHANGED <<globals, locals, environment, load_error, trace>>

\* flask run, gunicorn, app.test_client(): the module is imported, the
\* __main__ block does not run, and the app object serves.
ImportApp ==
    /\ pc = "uninitialized"
    /\ pc' = "serving"
    /\ start_mode' = "imported"
    /\ last_op' = "ImportApp"
    /\ UNCHANGED <<globals, locals, environment, load_calls, load_error, trace>>

(***************************************************************************)
(* load_model, one action per call that can raise.                         *)
(***************************************************************************)
\* Variant of the handler: the exception leaves load_model and ends the
\* process before app.run.
PropagateLoadError(step) ==
    /\ pc' = "crashed"
    /\ load_error' = step

\* except Exception as e: print, and return.
HandleLoadError(step) ==
    /\ pc' = "load_returned"
    /\ load_error' = step

\* dagshub.init(...) and MlflowClient().
LoadInit ==
    /\ pc = "load_init"
    /\ \/ /\ pc' = "load_lookup"
          /\ UNCHANGED load_error
       \/ HandleLoadError("init")
    /\ last_op' = "LoadInit"
    /\ UNCHANGED <<start_mode, globals, locals, environment, load_calls, trace>>

\* The lookup of the version to load: the Production stage, then, with
\* model_uri still None, the latest version; no version found raises.
LoadLookup ==
    /\ pc = "load_lookup"
    /\ \E production_raises \in BOOLEAN, latest_raises \in BOOLEAN :
         LET uri1  == Some(ProductionUri)
             prod  == get_latest_versions(registry, "Production")
             run1  == IF production_raises \/ prod = None THEN None
                      ELSE Some(registry.versions[Get(prod)].run_id)
             any   == get_latest_versions_any(registry)
             found == uri1 = None /\ ~latest_raises /\ any # None
             uri2  == IF found THEN Some(ModelUri("", Get(any))) ELSE uri1
             run2  == IF found THEN Some(registry.versions[Get(any)].run_id)
                      ELSE run1
         IN  /\ model_uri' = uri2
             /\ run_id' = run2
             /\ IF uri2 = None \/ run2 = None
                THEN HandleLoadError("no_model")
                ELSE pc' = "load_sklearn" /\ UNCHANGED load_error
    /\ last_op' = "LoadLookup"
    /\ UNCHANGED <<start_mode, globals, environment, load_calls, trace>>

\* model = mlflow.sklearn.load_model(model_uri): the URI is resolved against
\* the registry as it is now.
LoadSklearn ==
    /\ pc = "load_sklearn"
    /\ LET prod == Resolve(registry, Get(model_uri))
       IN  \/ /\ prod # None
              /\ model' = Some(registry.versions[Get(prod)].run_id)
              /\ pc' = "load_download"
              /\ UNCHANGED load_error
           \/ /\ HandleLoadError("sklearn")
              /\ UNCHANGED model
    /\ last_op' = "LoadSklearn"
    /\ UNCHANGED <<start_mode, training_columns, locals, environment, load_calls, trace>>

\* local_path = client.download_artifacts(run_id, "model_meta", ".").
LoadDownload ==
    /\ pc = "load_download"
    /\ \/ /\ pc' = "load_columns"
          /\ UNCHANGED load_error
       \/ HandleLoadError("download")
    /\ last_op' = "LoadDownload"
    /\ UNCHANGED <<start_mode, globals, locals, environment, load_calls, trace>>

\* training_columns = json.load(f) of training_columns.json.
LoadColumns ==
    /\ pc = "load_columns"
    /\ \/ /\ training_columns' = Some(registry.runs[Get(run_id)].columns)
          /\ pc' = "load_returned"
          /\ UNCHANGED load_error
       \/ /\ HandleLoadError("columns")
          /\ UNCHANGED training_columns
    /\ last_op' = "LoadColumns"
    /\ UNCHANGED <<start_mode, model, locals, environment, load_calls, trace>>

\* app.run(...): load_model() has returned and the server starts.
AppRun ==
    /\ pc = "load_returned"
    /\ pc' = "serving"
    /\ last_op' = "AppRun"
    /\ UNCHANGED <<start_mode, globals, locals, environment, load_calls, load_error, trace>>

(***************************************************************************)
(* Request handlers.                                                       *)
(***************************************************************************)
\* Variant of the guard: the test /health makes, on the model alone.
NotLoadedModelOnly(m, columns) == m = None

\* if model is None or training_columns is None
NotLoaded(m, columns) == m = None \/ columns = None

\* The try block of predict, each step run only if the one before it did
\* not raise: the frames it builds and the prediction or the exception.
Decoded(body) == LET data == get_json(body) IN IF data.ok THEN DataFrame(body) ELSE data

\* Variant of the expansion: the request is encoded as the training data
\* is, with the first category of the batch dropped.
ProcessedDroppingFirst(body) ==
    LET df == Decoded(body) IN IF df.ok THEN get_dummies(df.val, None, TRUE) ELSE df

Processed(body) ==
    LET df == Decoded(body) IN IF df.ok THEN get_dummies(df.val, None, FALSE) ELSE df

\* Variant of the alignment: df_processed[training_columns], which raises
\* KeyError for a training column the frame does not have.
AlignedBySelection(body, columns) ==
    LET p == Processed(body)
    IN  IF ~p.ok THEN p
        ELSE IF columns # None /\ \E c \in Range(Get(columns)) : c \notin Range(p.val.cols)
             THEN Raise("KeyError: columns not in index")
        ELSE reindex(p.val, columns, NumV(0))

Aligned(body, columns) ==
    LET p == Processed(body) IN IF p.ok THEN reindex(p.val, columns, NumV(0)) ELSE p

Prediction(body, m, columns, fitted, nan_ok) ==
    LET a == Aligned(body, columns)
    IN  IF a.ok THEN ModelPredict(m, fitted, nan_ok, a.val) ELSE a

Reached(r) == IF r.ok THEN Some(r.val) ELSE None

\* Variant of the response: the first price only.
PredictResponseFirstPrice(r) ==
    IF r.ok THEN Response(200, {"predicted_price"}, <<r.val[1]>>, "", "")
    ELSE Response(400, {"error"}, <<>>, r.err, "")

\* Variant of the response: an exception answered as an empty result.
PredictResponseSwallowing(r) ==
    IF r.ok THEN Response(200, {"predicted_price"}, r.val, "", "")
    ELSE Response(200, {"predicted_price"}, <<>>, "", "")

\* jsonify({"predicted_price": prediction.tolist()}) or
\* jsonify({"error": str(e)}), 400
PredictResponse(r) ==
    IF r.ok THEN Response(200, {"predicted_price"}, r.val, "", "")
    ELSE Response(400, {"error"}, <<>>, r.err, "")

\* Variant of predict: a successful answer is cached and given to the next
\* request, whatever its body.
predict_caching ==
    /\ pc = "serving"
    /\ \E body \in Bodies :
         /\ request' = body
         /\ IF NotLoaded(model, training_columns)
            THEN /\ response' = Response(500, {"error"}, <<>>, ErrNotLoaded, "")
                 /\ df_processed' = None
                 /\ df_aligned' = None
            ELSE /\ response' =
                        IF last_op = "predict" /\ response.status = 200
                        THEN response
                        ELSE PredictResponse(
                                 Prediction(body, Get(model), training_columns,
                                            registry.runs[Get(model)].columns, allow_nan))
                 /\ df_processed' = Reached(Processed(body))
                 /\ df_aligned' = Reached(Aligned(body, training_columns))
    /\ last_op' = "predict"
    /\ UNCHANGED <<pc, start_mode, globals, locals, environment, load_calls, load_error>>

\* Variant of predict: the except clause unloads the model.
predict_unloading_on_error ==
    /\ pc = "serving"
    /\ \E body \in Bodies :
         /\ request' = body
         /\ IF NotLoaded(model, training_columns)
            THEN /\ response' = Response(500, {"error"}, <<>>, ErrNotLoaded, "")
                 /\ df_processed' = None
                 /\ df_aligned' = None
                 /\ UNCHANGED globals
            ELSE LET r == Prediction(body, Get(model), training_columns,
                                     registry.runs[Get(model)].columns, allow_nan)
                 IN  /\ response' = PredictResponse(r)
                     /\ df_processed' = Reached(Processed(body))
                     /\ df_aligned' = Reached(Aligned(body, training_columns))
                     /\ model' = IF r.ok THEN model ELSE None
                     /\ UNCHANGED training_columns
    /\ last_op' = "predict"
    /\ UNCHANGED <<pc, start_mode, locals, environment, load_calls, load_error>>

\* Variant of predict: the handler first refreshes the model and the column
\* list from the version that is in Production now.
predict_refreshing ==
    /\ pc = "serving"
    /\ \E body \in Bodies :
         LET prod == get_latest_versions(registry, "Production")
             m    == IF prod = None THEN model
                     ELSE Some(registry.versions[Get(prod)].run_id)
             cols == IF prod = None THEN training_columns
                     ELSE Some(registry.runs[Get(m)].columns)
         IN  /\ request' = body
             /\ model' = m
             /\ training_columns' = cols
             /\ IF m = None \/ cols = None
                THEN /\ response' = Response(500, {"error"}, <<>>, ErrNotLoaded, "")
                     /\ df_processed' = None
                     /\ df_aligned' = None
                ELSE /\ response' = PredictResponse(
                            Prediction(body, Get(m), cols,
                                       registry.runs[Get(m)].columns, allow_nan))
                     /\ df_processed' = Reached(Processed(body))
                     /\ df_aligned' = Reached(Aligned(body, cols))
    /\ last_op' = "predict"
    /\ UNCHANGED <<pc, start_mode, locals, environment, load_calls, load_error>>

\* POST /predict
predict ==
    /\ pc = "serving"
    /\ \E body \in Bodies :
         /\ request' = body
         /\ IF NotLoaded(model, training_columns)
            THEN /\ response' = Response(500, {"error"}, <<>>, ErrNotLoaded, "")
                 /\ df_processed' = None
                 /\ df_aligned' = None
            ELSE LET m == Get(model)
                     r == Prediction(body, m, training_columns,
                                     registry.runs[m].columns, allow_nan)
                 IN  /\ response' = PredictResponse(r)
                     /\ df_processed' = Reached(Processed(body))
                     /\ df_aligned' = Reached(Aligned(body, training_columns))
    /\ last_op' = "predict"
    /\ UNCHANGED <<pc, start_mode, globals, locals, environment, load_calls, load_error>>

\* Variant of the status: a third value for a model loaded without its
\* column list.
ModelStatusThreeValued(m, columns) ==
    IF m = None THEN "not loaded"
    ELSE IF columns = None THEN "partially loaded" ELSE "loaded"

\* "loaded" if model is not None else "not loaded"
ModelStatus(m, columns) == IF m # None THEN "loaded" ELSE "not loaded"

\* The model a call of load_model would leave in the global, with no step
\* of it failing.
Reloaded ==
    LET prod == get_latest_versions(registry, "Production")
    IN  IF prod = None THEN None ELSE Some(registry.versions[Get(prod)].run_id)

\* Variant of health: a model that is not loaded is loaded on demand.
health_loading_on_demand ==
    /\ pc = "serving"
    /\ request' = NoBody
    /\ model' = IF model = None THEN Reloaded ELSE model
    /\ response' = Response(200, {"status", "model_status", "message"}, <<>>, "",
                            IF model' # None THEN "loaded" ELSE "not loaded")
    /\ df_processed' = None
    /\ df_aligned' = None
    /\ last_op' = "health"
    /\ UNCHANGED <<pc, start_mode, training_columns, locals, environment, load_calls,
                   load_error>>

\* Variant of health: every probe calls load_model() again.
health_reloading ==
    /\ pc = "serving"
    /\ request' = NoBody
    /\ model' = Reloaded
    /\ load_calls' = load_calls + 1
    /\ response' = Response(200, {"status", "model_status", "message"}, <<>>, "",
                            IF model # None THEN "loaded" ELSE "not loaded")
    /\ df_processed' = None
    /\ df_aligned' = None
    /\ last_op' = "health"
    /\ UNCHANGED <<pc, start_mode, training_columns, locals, environment, load_error>>

\* GET /health
health ==
    /\ pc = "serving"
    /\ request' = NoBody
    /\ response' = Response(200, {"status", "model_status", "message"}, <<>>, "",
                            ModelStatus(model, training_columns))
    /\ df_processed' = None
    /\ df_aligned' = None
    /\ last_op' = "health"
    /\ UNCHANGED <<pc, start_mode, globals, locals, environment, load_calls, load_error>>

Next ==
    \/ RunAsScript
    \/ ImportApp
    \/ LoadInit
    \/ LoadLookup
    \/ LoadSklearn
    \/ LoadDownload
    \/ LoadColumns
    \/ AppRun
    \/ predict
    \/ health

Spec == Init /\ [][Next]_vars

(***************************************************************************)
(* train.py, one action per step that can raise.  The script is run again  *)
(* only after the run before it has ended.                                 *)
(***************************************************************************)
Ended == {"finished", "failed"}

\* The exception leaves the script before a tracking run exists.
TrainStop(j, step) ==
    /\ train' = [train EXCEPT ![j].pc = "failed", ![j].failed_at = step]
    /\ UNCHANGED registry

\* The exception leaves the with block: the run ends FAILED, with what reg
\* holds of it, and the script stops.
TrainAbort(j, step, reg) ==
    /\ registry' = end_run(reg, train[j].run, "FAILED")
    /\ train' = [train EXCEPT ![j].pc = "failed", ![j].failed_at = step]

\* dagshub.init, read_csv, get_dummies, training_columns.json, the split.
TrainPrepare(j) ==
    /\ train[j].pc = "not_started"
    /\ \A k \in 1..(j - 1) : train[k].pc \in Ended
    /\ \/ train' = [train EXCEPT ![j] = Job("prepared", 0, 0, "none", registry)]
       \/ train' = [train EXCEPT ![j] = Job("failed", 0, 0, "prepare", registry)]
    /\ UNCHANGED <<serving, registry, allow_nan>>

\* with mlflow.start_run(nested=True):
TrainStartRun(j) ==
    /\ train[j].pc = "prepared"
    /\ \/ /\ registry' = create_run(registry, TrainRev(j))
          /\ train' = [train EXCEPT ![j].pc = "running",
                                    ![j].run = Len(registry.runs) + 1]
       \/ TrainStop(j, "start_run")
    /\ UNCHANGED <<serving, allow_nan>>

\* log_param twice, rf.fit, rf.predict: the fit may raise after the
\* parameters were logged.
TrainFit(j) ==
    /\ train[j].pc = "running"
    /\ LET logged == [registry EXCEPT !.runs[train[j].run].params = LoggedParams]
       IN  \/ /\ registry' = logged
              /\ train' = [train EXCEPT ![j].pc = "fitted"]
           \/ TrainAbort(j, "fit", logged)
           \/ TrainAbort(j, "fit", registry)
    /\ UNCHANGED <<serving, allow_nan>>

\* mlflow.log_metric("rmse", rmse)
TrainLogMetric(j) ==
    /\ train[j].pc = "fitted"
    /\ \/ /\ registry' = [registry EXCEPT !.runs[train[j].run].metrics = LoggedMetrics]
          /\ train' = [train EXCEPT ![j].pc = "metric_logged"]
       \/ TrainAbort(j, "metric", registry)
    /\ UNCHANGED <<serving, allow_nan>>

\* Variant of the step: the script goes on to log_model without logging
\* the artifact.
TrainSkipArtifact(j) ==
    /\ train[j].pc = "metric_logged"
    /\ train' = [train EXCEPT ![j].pc = "artifact_logged"]
    /\ UNCHANGED <<serving, registry, allow_nan>>

\* mlflow.log_artifact("training_columns.json", "model_meta")
TrainLogArtifact(j) ==
    /\ train[j].pc = "metric_logged"
    /\ \/ /\ registry' = [registry EXCEPT !.runs[train[j].run].artifact = TRUE]
          /\ train' = [train EXCEPT ![j].pc = "artifact_logged"]
       \/ TrainAbort(j, "artifact", registry)
    /\ UNCHANGED <<serving, allow_nan>>

\* mlflow.sklearn.log_model(..., registered_model_name=MODEL_NAME)
TrainLogModel(j) ==
    /\ train[j].pc = "artifact_logged"
    /\ \/ /\ registry' = create_model_version(registry, train[j].run)
          /\ train' = [train EXCEPT ![j].pc = "registered"]
       \/ TrainAbort(j, "log_model", registry)
    /\ UNCHANGED <<serving, allow_nan>>

\* latest_versions = client.get_latest_versions(MODEL_NAME, stages=["None"]);
\* no version raises; new_version = latest_versions[0].
TrainLookup(j) ==
    /\ train[j].pc = "registered"
    /\ \E lookup_raises \in BOOLEAN :
         LET latest_versions == get_latest_versions(registry, "None")
         IN  IF lookup_raises \/ latest_versions = None
             THEN TrainAbort(j, "lookup", registry)
             ELSE /\ train' = [train EXCEPT ![j].pc = "looked_up",
                                            ![j].new_version = Get(latest_versions)]
                  /\ UNCHANGED registry
    /\ UNCHANGED <<serving, allow_nan>>

\* client.transition_model_version_stage(..., stage="Production",
\* archive_existing_versions=True), and the end of the with block.
TrainTransition(j) ==
    /\ train[j].pc = "looked_up"
    /\ \/ /\ registry' = end_run(transition_model_version_stage(
                                     registry, train[j].new_version, "Production", TRUE),
                                 train[j].run, "FINISHED")
          /\ train' = [train EXCEPT ![j].pc = "finished"]
       \/ TrainAbort(j, "transition", registry)
    /\ UNCHANGED <<serving, allow_nan>>

\* The requests sent while train.py runs: a record of a category every
\* revision of the data has, and one of a category only the second has.
ProbeBodies ==
    { Body("array", <<PairRecord>>),
      Body("array", << <<Member("carat", NumV(1)), Member("cut", StrV("Rare"))>> >>) }

\* POST /predict with one of the probe bodies.
Probe == request' \in ProbeBodies /\ predict

\* The registry before the first run of train.py, and the serving process
\* started as a script.
InitT ==
    /\ Init
    /\ registry = Registry(<<>>, <<>>)
    /\ allow_nan = FALSE

NextT ==
    \/ RunAsScript
    \/ LoadInit
    \/ LoadLookup
    \/ LoadSklearn
    \/ LoadDownload
    \/ LoadColumns
    \/ AppRun
    \/ Probe
    \/ health
    \/ \E j \in Jobs : TrainPrepare(j)
    \/ \E j \in Jobs : TrainStartRun(j)
    \/ \E j \in Jobs : TrainFit(j)
    \/ \E j \in Jobs : TrainLogMetric(j)
    \/ \E j \in Jobs : TrainLogArtifact(j)
    \/ \E j \in Jobs : TrainLogModel(j)
    \/ \E j \in Jobs : TrainLookup(j)
    \/ \E j \in Jobs : TrainTransition(j)

SpecTrain == InitT /\ [][NextT]_vars

(***************************************************************************)
(* Properties.                                                             *)
(***************************************************************************)
HealthKeys == {"status", "model_status", "message"}

\* C1: whenever /health reports model_status "loaded", the model and the
\* training column list are both loaded, so /predict cannot answer 500
\* "Model not loaded" in that state.
C1_LoadedMeansPredictable ==
    (last_op = "health" /\ response.model_status = "loaded")
        => (model # None /\ training_columns # None)

\* The fields a feature record must have, and the categories its
\* categorical field may take with the loaded model: those of the data set
\* the model was trained on.
IsFeatureRecord(rec, cuts) ==
    /\ Len(rec) = 2
    /\ Range(Keys(rec)) = {"carat", "cut"}
    /\ Lookup(rec, "carat").k = "num"
    /\ Lookup(rec, "cut") \in cuts

TrainedCuts(m) == Range(Column(Dataset(registry.runs[m].dataset), 2))

\* The row the model expects for a feature record: under each training
\* column the numeric field of that name, or 1 for the indicator of the
\* record's category and 0 for the other indicators.
ExpectedRow(rec, L) ==
    [j \in 1..Len(L) |->
        IF L[j] = "carat" THEN Lookup(rec, "carat")
        ELSE IF L[j] = "cut_" \o Lookup(rec, "cut").s THEN NumV(1) ELSE NumV(0)]

\* C2: on a loaded model a batch of N >= 1 valid feature records is answered
\* 200 with exactly N prices, entry i the model's prediction for record i.
C2_OnePricePerRecordInOrder ==
    (/\ last_op = "predict"
     /\ model # None /\ training_columns # None
     /\ request.kind = "array"
     /\ Len(request.records) >= 1
     /\ \A i \in 1..Len(request.records) :
            IsFeatureRecord(request.records[i], TrainedCuts(Get(model))))
        => /\ response.status = 200
           /\ response.keys = {"predicted_price"}
           /\ Len(response.predicted_price) = Len(request.records)
           /\ \A i \in 1..Len(request.records) :
                  response.predicted_price[i] =
                      PredictRow(Get(model),
                                 ExpectedRow(request.records[i], Get(training_columns)))

\* Witness of C2: a batch of two different valid records answered with two
\* different prices.
C2_Witness ==
    /\ last_op = "predict"
    /\ model # None /\ training_columns # None
    /\ request.kind = "array"
    /\ Len(request.records) = 2
    /\ \A i \in 1..2 : IsFeatureRecord(request.records[i], TrainedCuts(Get(model)))
    /\ response.status = 200
    /\ Len(response.predicted_price) = 2
    /\ response.predicted_price[1] # response.predicted_price[2]

\* C3: with the model or the column list not loaded, every /predict is
\* answered 500 with the single field error, the "Model not loaded" text,
\* whatever the body, and builds no frame.
C3_NotLoadedAnswers500 ==
    (last_op = "predict" /\ (model = None \/ training_columns = None))
        => /\ response.status = 500
           /\ response.keys = {"error"}
           /\ response.error = ErrNotLoaded
           /\ response.predicted_price = <<>>
           /\ df_processed = None
           /\ df_aligned = None

\* Witness of C3: the model is loaded, the column list is not, and a
\* well-formed batch is answered 500.
C3_Witness ==
    /\ last_op = "predict"
    /\ model # None
    /\ training_columns = None
    /\ request.kind = "array"
    /\ Len(request.records) = 1
    /\ response.status = 500

\* C4: load_model returns normally after a failure at any of its steps: the
\* process never ends in load_model, the server can start, and /health
\* answers 200.
C4_LoadModelNeverRaises ==
    /\ pc \in {"uninitialized", "load_init", "load_lookup", "load_sklearn",
               "load_download", "load_columns", "load_returned", "serving"}
    /\ load_error # "none" => pc \in {"load_returned", "serving"}
    /\ pc = "load_returned" => ENABLED AppRun
    /\ (pc = "serving" /\ last_op = "health")
           => (response.status = 200 /\ response.keys = HealthKeys)

\* Witness of C4: parsing training_columns.json failed, the server started
\* and /health answered 200.
C4_Witness ==
    /\ load_error = "columns"
    /\ pc = "serving"
    /\ last_op = "health"
    /\ response.status = 200

\* The texts of the exceptions the try block of predict can raise.
ExceptionTexts ==
    {ErrBadJson, ErrScalars, ErrNoObjects, ErrDuplicate, ErrFeatureNames,
     ErrNoSamples, ErrNaN}

\* C5: with model and columns loaded, /predict answers either 200 with only
\* predicted_price, one price per record of the batch, or 400 with only
\* error, the exception's text, and no price at all.
C5_WholeBatchOrError ==
    (last_op = "predict" /\ model # None /\ training_columns # None)
        => \/ /\ response.status = 200
              /\ response.keys = {"predicted_price"}
              /\ request.kind = "array"
              /\ Len(response.predicted_price) = Len(request.records)
              /\ response.error = ""
           \/ /\ response.status = 400
              /\ response.keys = {"error"}
              /\ response.predicted_price = <<>>
              /\ response.error \in ExceptionTexts
              /\ request.kind = "malformed" => response.error = ErrBadJson
              /\ request.kind = "object" => response.error = ErrScalars
              /\ df_processed # None /\ df_aligned = None
                     => response.error = ErrDuplicate
              /\ df_aligned # None
                     => response.error \in {ErrFeatureNames, ErrNoSamples, ErrNaN}

\* Witness of C5: a batch of two records, the first of them complete, fails
\* as a whole with the exception one record raised.
C5_Witness ==
    /\ last_op = "predict"
    /\ model # None /\ training_columns # None
    /\ request.kind = "array"
    /\ Len(request.records) = 2
    /\ IsFeatureRecord(request.records[1], TrainedCuts(Get(model)))
    /\ response.status = 400
    /\ response.error = ErrDuplicate
    /\ response.predicted_price = <<>>

\* C6: a payload that is malformed, or a batch none of whose records has a
\* feature field, is answered with an error (400 or 500 and an error
\* field), never with 200 and a price, in every serving state.
C6_InvalidPayloadRejected ==
    (/\ last_op = "predict"
     /\ \/ request.kind = "malformed"
        \/ /\ request.kind = "array"
           /\ Len(request.records) >= 1
           /\ \A i \in 1..Len(request.records) :
                  Range(Keys(request.records[i])) \cap {"carat", "cut"} = {})
        => /\ response.status \in {400, 500}
           /\ "error" \in response.keys
           /\ response.predicted_price = <<>>

\* C7: however the process was started, load_model has been called exactly
\* once by the time it serves requests.
C7_LoadsOnceBeforeServing == pc = "serving" => load_calls = 1

\* C8: once load_model has returned, the process stays past it, the model
\* never goes from loaded to not loaded or back, and every /health reports
\* that one value.
C8_StatusNeverFlips ==
    [][(pc \in {"load_returned", "serving"})
          => (/\ pc' \in {"load_returned", "serving"}
              /\ (model' = None) <=> (model = None)
              /\ (last_op' = "health")
                     => (response'.model_status =
                            IF model = None THEN "not loaded" ELSE "loaded"))
      ]_vars

\* Witness of C8: load_model returned without a model, requests were
\* handled, and /health reports "not loaded".
C8_Witness ==
    /\ start_mode = "script"
    /\ load_error = "no_model"
    /\ last_op = "health"
    /\ response.model_status = "not loaded"

\* C9: handling /health leaves the load state as it is: model,
\* training_columns, the locals and the call count of load_model, the
\* registry.
C9_HealthLeavesLoadState ==
    [][(last_op' = "health")
          => UNCHANGED <<model, training_columns, model_uri, run_id, registry,
                         load_calls, load_error, pc>>
      ]_vars

\* Witness of C9: /health handled in the ready state.
C9_Witness ==
    /\ last_op = "health"
    /\ model # None
    /\ training_columns # None
    /\ load_calls = 1
    /\ response.model_status = "loaded"

\* A is F reindexed onto L: the labels of L in the order of L, the rows of
\* F in their order, under a label F has the values of F and under any
\* other label 0.
IsReindexOf(A, F, L) ==
    /\ A.cols = L
    /\ Len(A.rows) = Len(F.rows)
    /\ \A i \in 1..Len(F.rows) :
           /\ Len(A.rows[i]) = Len(L)
           /\ \A j \in 1..Len(L) :
                  /\ \A k \in 1..Len(F.cols) :
                         F.cols[k] = L[j] => A.rows[i][j] = F.rows[i][k]
                  /\ (\A k \in 1..Len(F.cols) : F.cols[k] # L[j])
                         => A.rows[i][j] = NumV(0)

\* C10 as stated: every frame that reaches alignment is aligned, and the
\* aligned frame is the frame reindexed onto the training column list.
C10_AlignmentIsReindex ==
    (last_op = "predict" /\ df_processed # None)
        => /\ df_aligned # None
           /\ IsReindexOf(Get(df_aligned), Get(df_processed), Get(training_columns))

\* C10 as amended: the same for every frame whose column labels are
\* distinct.
C10_AlignmentIsReindexOfDistinctLabels ==
    (/\ last_op = "predict"
     /\ df_processed # None
     /\ \A j, k \in 1..Len(Get(df_processed).cols) :
            Get(df_processed).cols[j] = Get(df_processed).cols[k] => j = k)
        => /\ df_aligned # None
           /\ IsReindexOf(Get(df_aligned), Get(df_processed), Get(training_columns))

\* Witness of C10: a frame of two rows is aligned, one of its columns is
\* dropped and one training column is added.
C10_Witness ==
    /\ last_op = "predict"
    /\ df_processed # None
    /\ df_aligned # None
    /\ Len(Get(df_aligned).rows) = 2
    /\ \E c \in Range(Get(df_processed).cols) : c \notin Range(Get(training_columns))
    /\ \E c \in Range(Get(training_columns)) : c \notin Range(Get(df_processed).cols)
    /\ \E c \in Range(Get(training_columns)) : c \in Range(Get(df_processed).cols)

\* A record that has the categorical field and lacks the numeric one.
LacksNumeric(rec) ==
    /\ Len(rec) = 1
    /\ rec[1].key = "cut"
    /\ rec[1].val.k = "str"

\* C11: on a loaded model a batch of records that all lack a numeric field
\* of the training column list is not rejected: the aligned frame has that
\* column with 0 in every row and the answer is 200 with one price per
\* record.
C11_MissingNumericIsZeroFilled ==
    (/\ last_op = "predict"
     /\ model # None /\ training_columns # None
     /\ request.kind = "array"
     /\ Len(request.records) >= 1
     /\ \A i \in 1..Len(request.records) : LacksNumeric(request.records[i])
     /\ "carat" \in Range(Get(training_columns)))
        => /\ df_processed # None
           /\ "carat" \notin Range(Get(df_processed).cols)
           /\ df_aligned # None
           /\ Get(df_aligned).cols = Get(training_columns)
           /\ \A i \in 1..Len(request.records) :
                  \A j \in 1..Len(Get(training_columns)) :
                      Get(training_columns)[j] = "carat"
                          => Get(df_aligned).rows[i][j] = NumV(0)
           /\ response.status = 200
           /\ response.keys = {"predicted_price"}
           /\ Len(response.predicted_price) = Len(request.records)

\* Witness of C11: two records without the numeric field, answered 200.
C11_Witness ==
    /\ last_op = "predict"
    /\ model # None /\ training_columns # None
    /\ request.kind = "array"
    /\ Len(request.records) = 2
    /\ \A i \in 1..2 : LacksNumeric(request.records[i])
    /\ response.status = 200
    /\ Len(response.predicted_price) = 2

\* A record with both feature fields, whatever its category.
HasBothFields(rec) ==
    /\ Len(rec) = 2
    /\ Range(Keys(rec)) = {"carat", "cut"}
    /\ Lookup(rec, "carat").k = "num"
    /\ Lookup(rec, "cut").k = "str"

\* The indicator columns of the categorical field in a column list.
CutIndicators(L) == {j \in 1..Len(L) : L[j] # "carat"}

\* C12: a record whose category the training data does not have aligns
\* without raising: the expanded frame has the indicator of that category,
\* the aligned frame has exactly the training columns and not that
\* indicator, and every training indicator is 0 in the record's row.
C12_UnseenCategoryAligns ==
    (/\ last_op = "predict"
     /\ model # None /\ training_columns # None
     /\ request.kind = "array"
     /\ \A i \in 1..Len(request.records) : HasBothFields(request.records[i]))
        => \A i \in 1..Len(request.records) :
               Lookup(request.records[i], "cut") \notin TrainedCuts(Get(model))
                   => /\ df_processed # None
                      /\ ("cut_" \o Lookup(request.records[i], "cut").s)
                             \in Range(Get(df_processed).cols)
                      /\ df_aligned # None
                      /\ Get(df_aligned).cols = Get(training_columns)
                      /\ ("cut_" \o Lookup(request.records[i], "cut").s)
                             \notin Range(Get(df_aligned).cols)
                      /\ Len(Get(df_aligned).rows[i]) = Len(Get(training_columns))
                      /\ \A j \in CutIndicators(Get(training_columns)) :
                             Get(df_aligned).rows[i][j] = NumV(0)
                      /\ response.status = 200

\* Witness of C12: a batch of a known and an unseen category is aligned.
C12_Witness ==
    /\ last_op = "predict"
    /\ model # None /\ training_columns # None
    /\ request.kind = "array"
    /\ Len(request.records) = 2
    /\ \A i \in 1..2 : HasBothFields(request.records[i])
    /\ Lookup(request.records[1], "cut") \in TrainedCuts(Get(model))
    /\ Lookup(request.records[2], "cut") \notin TrainedCuts(Get(model))
    /\ df_aligned # None
    /\ Get(df_aligned).cols = Get(training_columns)

\* The preprocessing of predict applied to a frame: expansion, then
\* alignment.
Realign(F, columns) ==
    LET p == get_dummies(F, None, FALSE)
    IN  IF p.ok THEN reindex(p.val, columns, NumV(0)) ELSE p

\* C13: aligning an aligned frame against the same column list gives the
\* same frame: same columns, same order, same values.
C13_AlignmentIdempotent ==
    (last_op = "predict" /\ df_aligned # None /\ training_columns # None)
        => /\ reindex(Get(df_aligned), training_columns, NumV(0)) = Ok(Get(df_aligned))
           /\ Realign(Get(df_aligned), training_columns) = Ok(Get(df_aligned))

\* Witness of C13: a frame of two rows that the first alignment changed.
C13_Witness ==
    /\ last_op = "predict"
    /\ df_processed # None
    /\ df_aligned # None
    /\ training_columns # None
    /\ Len(Get(df_aligned).rows) = 2
    /\ Get(df_aligned).cols # Get(df_processed).cols

C20_BareObjectPredicted ==
    (/\ last_op = "predict"
     /\ model # None /\ training_columns # None
     /\ request.kind = "object"
     /\ HasBothFields(request.records[1]))
        => /\ response.status = 200
           /\ Len(response.predicted_price) = 1

(***************************************************************************)
(* train.py run again while a run of it is still going.                    *)
(***************************************************************************)
\* The runs of train.py that have started and not ended.
InProgress == {k \in Jobs : train[k].pc \notin (Ended \cup {"not_started"})}

\* The first step of the script, started while at most one other run of it
\* is going: runs overlap in pairs.
TrainPrepareConcurrently(j) ==
    /\ train[j].pc = "not_started"
    /\ Cardinality(InProgress) <= 1
    /\ \/ train' = [train EXCEPT ![j] = Job("prepared", 0, 0, "none", registry)]
       \/ train' = [train EXCEPT ![j] = Job("failed", 0, 0, "prepare", registry)]
    /\ UNCHANGED <<serving, registry, allow_nan>>

NextO ==
    \/ \E j \in Jobs : TrainPrepareConcurrently(j)
    \/ \E j \in Jobs : TrainStartRun(j)
    \/ \E j \in Jobs : TrainFit(j)
    \/ \E j \in Jobs : TrainLogMetric(j)
    \/ \E j \in Jobs : TrainLogArtifact(j)
    \/ \E j \in Jobs : TrainLogModel(j)
    \/ \E j \in Jobs : TrainLookup(j)
    \/ \E j \in Jobs : TrainTransition(j)

SpecOverlap == InitT /\ [][NextO]_vars

(***************************************************************************)
(* Properties of the training runs.                                        *)
(***************************************************************************)
\* The versions that hold a stage.
InStage(reg, stage) ==
    {v \in 1..Len(reg.versions) : reg.versions[v].current_stage = stage}

\* The runs of train.py that completed.
Completed == {j \in Jobs : train[j].pc = "finished"}

\* The last of them.
LastCompleted == CHOOSE j \in Completed : \A k \in Completed : k <= j

\* C14: after the training runs that completed, exactly one version holds
\* Production: the version the last completed run registered and promoted;
\* the versions the completed runs before it promoted are archived.
C14_OneProductionFromLastRun ==
    (Completed # {})
        => /\ InStage(registry, "Production") = {train[LastCompleted].new_version}
           /\ registry.versions[train[LastCompleted].new_version].run_id
                  = train[LastCompleted].run
           /\ \A k \in Completed \ {LastCompleted} :
                  /\ train[k].new_version # train[LastCompleted].new_version
                  /\ registry.versions[train[k].new_version].current_stage = "Archived"

\* Witness of C14: two runs completed, the second one after the first.
C14_Witness ==
    /\ Cardinality(Completed) >= 2
    /\ InStage(registry, "Archived") # {}
    /\ InStage(registry, "Production") # {}

\* The step of train.py that is taken, if the step is one of train.py.
Stepping(j) == train'[j] # train[j]

\* C15: a step of a training run other than the stage transition that
\* succeeds, a failing step included, leaves the Production label where it
\* is: the same versions hold Production and Archived after the step, and
\* a run that failed before the transition finds the Production versions
\* it started with.
C15_FailedRunKeepsProduction ==
    [][(\A j \in Jobs :
          /\ (Stepping(j) /\ train'[j].pc # "finished")
                => /\ InStage(registry', "Production") = InStage(registry, "Production")
                   /\ InStage(registry', "Archived") = InStage(registry, "Archived")
          /\ (Stepping(j) /\ train'[j].pc = "failed" /\ train'[j].failed_at # "transition")
                => InStage(registry', "Production")
                       = InStage(train'[j].before, "Production"))
      ]_vars

\* Witness of C15: a run failed at the version lookup, after a run that
\* completed, and the version of the completed run holds Production.
C15_Witness ==
    \E j \in Jobs :
        /\ train[j].pc = "failed"
        /\ train[j].failed_at = "lookup"
        /\ InStage(train[j].before, "Production") # {}
        /\ InStage(registry, "Production") = InStage(train[j].before, "Production")
        /\ InStage(registry, "None") # {}

\* C16 as stated: after a run that failed the registry is what it was
\* before the run.
C16_FailedRunLeavesNothing ==
    \A j \in Jobs :
        (train[j].pc = "failed" /\ \A k \in Jobs : k > j => train[k].pc = "not_started")
            => registry = train[j].before

\* The steps of the with block, in order, and the rank of the failing step.
RunSteps == <<"fit", "metric", "artifact", "log_model", "lookup", "transition">>

StepRank(step) == CHOOSE i \in 1..Len(RunSteps) : RunSteps[i] = step

\* C16 as amended: a failed run is not rolled back.  The registry is what
\* it was before the run only if the run failed before mlflow.start_run;
\* otherwise the run stays, FAILED, with what it logged before the failing
\* step, and a run that failed after log_model leaves its version in stage
\* "None".  The runs and versions from before the run are unchanged.
C16_FailedRunKeepsWhatItLogged ==
    \A j \in Jobs :
        (train[j].pc = "failed" /\ \A k \in Jobs : k > j => train[k].pc = "not_started")
            => LET old == train[j].before
                   r   == train[j].run
               IN  IF train[j].failed_at \in {"prepare", "start_run"}
                   THEN registry = old
                   ELSE LET rank == StepRank(train[j].failed_at)
                        IN  /\ r = Len(old.runs) + 1
                            /\ Len(registry.runs) = r
                            /\ SubSeq(registry.runs, 1, Len(old.runs)) = old.runs
                            /\ registry.runs[r].status = "FAILED"
                            /\ rank > 1 => registry.runs[r].params = LoggedParams
                            /\ rank > 2 => registry.runs[r].metrics = LoggedMetrics
                            /\ rank > 3 => registry.runs[r].artifact
                            /\ SubSeq(registry.versions, 1, Len(old.versions)) = old.versions
                            /\ IF rank > 4
                               THEN /\ Len(registry.versions) = Len(old.versions) + 1
                                    /\ registry.versions[Len(registry.versions)]
                                           = Version(r, "None")
                               ELSE registry.versions = old.versions

\* Witness of C16: a run that failed at the stage transition, with its
\* parameters, metric and artifact logged and its version in stage "None".
C16_Witness ==
    \E j \in Jobs :
        /\ train[j].pc = "failed"
        /\ train[j].failed_at = "transition"
        /\ registry # train[j].before
        /\ registry.runs[train[j].run].params = LoggedParams
        /\ registry.versions[train[j].new_version].current_stage = "None"

\* The response /predict gives to a body with these globals and this
\* registry.
Answer(body, m, columns, reg, nan_ok) ==
    IF m = None \/ columns = None
    THEN Response(500, {"error"}, <<>>, ErrNotLoaded, "")
    ELSE PredictResponse(Prediction(body, Get(m), columns,
                                    reg.runs[Get(m)].columns, nan_ok))

\* C17: once load_model has set the model and the column list, the process
\* keeps them: no step of a serving process changes them, a step of a
\* training run, the promotion included, changes the answer to no request,
\* and the model is only ever set by load_model, to the version that holds
\* Production at that moment.
C17_ModelFixedForLifetime ==
    [][(/\ (pc = "serving")
              => /\ model' = model
                 /\ training_columns' = training_columns
        /\ (registry' # registry)
              => \A body \in ProbeBodies :
                     Answer(body, model', training_columns', registry', allow_nan')
                         = Answer(body, model, training_columns, registry, allow_nan)
        /\ (model' # model)
              => /\ pc = "load_sklearn"
                 /\ InStage(registry, "Production") # {}
                 /\ \E v \in InStage(registry, "Production") :
                        model' = Some(registry.versions[v].run_id))
      ]_vars

\* Witness of C17: a process that loaded the first version answers a
\* request after a second version was promoted.
C17_Witness ==
    /\ pc = "serving"
    /\ last_op = "predict"
    /\ response.status = 200
    /\ model # None
    /\ training_columns # None
    /\ \E v \in InStage(registry, "Production") :
           registry.versions[v].run_id # Get(model)
    /\ \E v \in InStage(registry, "Archived") :
           registry.versions[v].run_id = Get(model)

(***************************************************************************)
(* Properties of the handlers and of the encodings.                        *)
(***************************************************************************)
\* C21: on a loaded model the response to /predict is a function of the
\* body and of the loaded model and column list alone: whatever requests
\* were handled before, the same body gets the same response.
C21_PredictHistoryIndependent ==
    (last_op = "predict" /\ model # None /\ training_columns # None)
        => response = Answer(request, model, training_columns, registry, allow_nan)

\* Witness of C21: a request answered 200 on a loaded model.
C21_Witness ==
    /\ last_op = "predict"
    /\ model # None /\ training_columns # None
    /\ Len(request.records) = 2
    /\ response.status = 200

\* C22: load_model falls back to the latest registered version when the
\* Production lookup gives none, loads that version and the column list of
\* its run, and reports "No model found" only when no version is
\* registered.
C22_FallsBackToLatest ==
    (start_mode = "script" /\ pc \in {"load_returned", "serving"})
        => /\ (load_error = "no_model") => (get_latest_versions_any(registry) = None)
           /\ (/\ load_error = "none"
               /\ get_latest_versions(registry, "Production") = None
               /\ get_latest_versions_any(registry) # None)
                  => /\ model = Some(registry.versions[
                                         Get(get_latest_versions_any(registry))].run_id)
                     /\ training_columns = Some(registry.runs[Get(model)].columns)

\* C24: no request handler writes the load state: a step of the serving
\* process leaves model and training_columns as they are, whatever the
\* request and its outcome; model is written by load_model's load of the
\* model and training_columns by its load of the column list, and by
\* nothing else.
C24_HandlersLeaveLoadState ==
    [][(/\ (pc = "serving" /\ last_op' \in {"predict", "health"})
              => (model' = model /\ training_columns' = training_columns)
        /\ (model' # model) => (pc = "load_sklearn" /\ last_op' = "LoadSklearn")
        /\ (training_columns' # training_columns)
              => (pc = "load_columns" /\ last_op' = "LoadColumns"))
      ]_vars

\* Witness of C24: a request that raised, on a loaded model that is still
\* loaded.
C24_Witness ==
    /\ last_op = "predict"
    /\ response.status = 400
    /\ model # None /\ training_columns # None

HasKey(rec, k) == k \in Range(Keys(rec))

\* A record of the numeric and the categorical field, either of which may
\* be missing.
InExpansionScope(rec) ==
    /\ ~HasDuplicates(Keys(rec))
    /\ \A k \in 1..Len(rec) :
           \/ rec[k].key = "carat" /\ rec[k].val.k = "num"
           \/ rec[k].key = "cut" /\ rec[k].val.k = "str"

CutValues == {StrV(StringOrder[i]) : i \in 1..Len(StringOrder)}

\* C25: the expansion at inference keeps one row per record, has the column
\* cut_v exactly when a record of the batch has cut = v, with 1 in the rows
\* of those records and 0 in the others, and passes the numeric column
\* through unchanged.
C25_ExpansionFromBatch ==
    (/\ last_op = "predict"
     /\ model # None /\ training_columns # None
     /\ request.kind = "array"
     /\ Len(request.records) >= 1
     /\ \A i \in 1..Len(request.records) : InExpansionScope(request.records[i]))
        => /\ df_processed # None
           /\ LET F   == Get(df_processed)
                  rec == request.records
                  N   == Len(request.records)
              IN  /\ Len(F.rows) = N
                  /\ ~HasDuplicates(F.cols)
                  /\ Range(F.cols) \subseteq
                         ({"carat"} \cup {"cut_" \o v.s : v \in CutValues})
                  /\ \A v \in CutValues :
                         /\ ("cut_" \o v.s) \in Range(F.cols)
                               <=> \E i \in 1..N :
                                       HasKey(rec[i], "cut") /\ Lookup(rec[i], "cut") = v
                         /\ ("cut_" \o v.s) \in Range(F.cols)
                               => \A i \in 1..N :
                                      F.rows[i][IndexOf(F.cols, "cut_" \o v.s)] =
                                          IF HasKey(rec[i], "cut") /\ Lookup(rec[i], "cut") = v
                                          THEN NumV(1) ELSE NumV(0)
                  /\ ("carat" \in Range(F.cols))
                         <=> \E i \in 1..N : HasKey(rec[i], "carat")
                  /\ ("carat" \in Range(F.cols))
                         => \A i \in 1..N :
                                F.rows[i][IndexOf(F.cols, "carat")] =
                                    IF HasKey(rec[i], "carat")
                                    THEN Lookup(rec[i], "carat") ELSE NaN

\* Witness of C25: two records of different categories, expanded to two
\* indicator columns beside the numeric one.
C25_Witness ==
    /\ last_op = "predict"
    /\ model # None /\ training_columns # None
    /\ request.kind = "array"
    /\ Len(request.records) = 2
    /\ \A i \in 1..2 : InExpansionScope(request.records[i])
    /\ df_processed # None
    /\ Len(Get(df_processed).cols) = 3

\* The row train.py's encoding gives a record: the record is added to the
\* data set, the data set encoded with the first category dropped and the
\* target removed, and the record's row taken.
TrainRow(rec, rev) ==
    LET df == Dataset(rev)
        X  == TrainX(Frame(df.cols,
                           Append(df.rows,
                                  <<Lookup(rec, "carat"), Lookup(rec, "cut"), NumV(0)>>)))
    IN  X.rows[Len(X.rows)]

\* The category train.py's encoding drops.
FirstCut(rev) == Levels(Dataset(rev), 2, FALSE)[1]

\* C29: for a record with a number in its numeric field and a category of
\* the training data, the row of the aligned frame at inference is the row
\* the training encoding gives the record; a record of the dropped first
\* category has 0 in every indicator column.
C29_InferenceMatchesTraining ==
    (/\ last_op = "predict"
     /\ model # None /\ training_columns # None
     /\ request.kind = "array"
     /\ Len(request.records) >= 1
     /\ \A i \in 1..Len(request.records) :
            IsFeatureRecord(request.records[i], TrainedCuts(Get(model))))
        => /\ df_aligned # None
           /\ Len(Get(df_aligned).rows) = Len(request.records)
           /\ \A i \in 1..Len(request.records) :
                  LET rev == registry.runs[Get(model)].dataset
                      row == Get(df_aligned).rows[i]
                  IN  /\ row = TrainRow(request.records[i], rev)
                      /\ (Lookup(request.records[i], "cut") = FirstCut(rev))
                             => \A j \in CutIndicators(Get(training_columns)) :
                                    row[j] = NumV(0)

\* Witness of C29: a batch of a record of the dropped category and a record
\* of another category.
C29_Witness ==
    /\ last_op = "predict"
    /\ model # None /\ training_columns # None
    /\ request.kind = "array"
    /\ Len(request.records) = 2
    /\ \A i \in 1..2 : IsFeatureRecord(request.records[i], TrainedCuts(Get(model)))
    /\ \E i \in 1..2 : Lookup(request.records[i], "cut")
                           = FirstCut(registry.runs[Get(model)].dataset)
    /\ \E i \in 1..2 : Lookup(request.records[i], "cut")
                           # FirstCut(registry.runs[Get(model)].dataset)
    /\ df_aligned # None
    /\ response.status = 200

(***************************************************************************)
(* Properties of overlapping runs and of what a run persists.              *)
(***************************************************************************)
\* C23: the version a training run looks up and promotes is the version
\* this run registered, also when another run registers a version between
\* this run's log_model and its stage transition.
C23_RunPromotesOwnVersion ==
    \A j \in Jobs :
        (train[j].pc \in {"looked_up", "finished"})
            => registry.versions[train[j].new_version].run_id = train[j].run

\* The categories of a data set in pandas' order, without the first.
KeptCuts(df) ==
    Tail(SelectSeq(StringOrder, LAMBDA c : StrV(c) \in Range(Column(df, 2))))

\* C26: the column list a run persists is the list of the feature columns
\* of the matrix it fits: the numeric column, then one indicator per
\* category of the data in order, the first category left out, and no
\* target column.
C26_ColumnListIsFeatureColumns ==
    \A r \in 1..Len(registry.runs) :
        LET df == Dataset(registry.runs[r].dataset)
            L  == registry.runs[r].columns
        IN  /\ "price" \notin Range(L)
            /\ L = <<"carat">> \o [k \in 1..Len(KeptCuts(df)) |-> "cut_" \o KeptCuts(df)[k]]
            /\ Len(L) = Cardinality(Range(Column(df, 2)))
            /\ ~HasDuplicates(L)

\* Witness of C26: a run on each revision of the data has logged its
\* column list.
C26_Witness ==
    /\ Len(registry.runs) >= 2
    /\ registry.runs[1].artifact
    /\ registry.runs[2].artifact
    /\ registry.runs[1].columns # registry.runs[2].columns

\* C27: in a serving process that has both, the model and the column list
\* come from the same version: the run whose model was loaded is the run
\* whose column list was loaded.
C27_ModelAndColumnsSameVersion ==
    (pc = "serving" /\ model # None /\ training_columns # None)
        => /\ Get(model) = Get(run_id)
           /\ training_columns = Some(registry.runs[Get(model)].columns)

\* C28: every registered version, and so every version in Production, is of
\* a run that has its column list under model_meta, and every version a
\* run promotes is registered.
C28_ProductionHasColumnList ==
    /\ \A v \in 1..Len(registry.versions) :
           /\ registry.versions[v].run_id \in 1..Len(registry.runs)
           /\ registry.runs[registry.versions[v].run_id].artifact
    /\ \A v \in InStage(registry, "Production") :
           registry.runs[registry.versions[v].run_id].artifact
    /\ \A j \in Jobs :
           (train[j].pc \in {"looked_up", "finished"})
               => train[j].new_version \in 1..Len(registry.versions)

\* Witness of C28: a version is in Production while another run has not
\* logged its column list yet.
C28_Witness ==
    /\ InStage(registry, "Production") # {}
    /\ \E r \in 1..Len(registry.runs) :
           registry.runs[r].status = "RUNNING" /\ ~registry.runs[r].artifact

====
